---- MODULE Spec2Model ----
(***************************************************************************)
(* A model of smithy-go's ptr/generate.go: the generator's catalogue and   *)
(* symbol resolution (Import.Package, Scalar.Name, Scalar.Symbol,          *)
(* Scalars.Imports), the run of main/generateFile, and the behaviour of    *)
(* the helper functions whose text the templates emit.                     *)
(*                                                                         *)
(* Go strings are sequences of one-character strings, so that Split and    *)
(* Title are computed rather than assumed.  Three specifications share the *)
(* module: Spec (a run of main), SpecSymbol (Package/Symbol applied to     *)
(* bounded inputs) and SpecPtr (calls of the generated helpers on a heap). *)
(***************************************************************************)
EXTENDS Integers, Sequences, FiniteSets, TLC

VARIABLES
    \* ---- a run of main (Spec)
    types,      \* the catalogue handed to generateFile
    pc,         \* where main / generateFile stands
    pending,    \* entries of main's filename map not yet ranged over
    filename,   \* generateFile's filename argument
    tmplName,   \* generateFile's tmplName argument
    open,       \* file handles currently open
    disk,       \* content of each output file
    err,        \* the error generateFile returns (<<>> is nil)
    status,     \* the process exit status (-1 while running)
    logged,     \* the message log.Fatalf printed (<<>> if none)
    cause,      \* the error os.Create or ExecuteTemplate returned (<<>> is nil)
    hist,       \* history: per file, what was called how often
    \* ---- Package / Symbol on bounded inputs (SpecSymbol)
    scalar,     \* the Scalar receiver
    symOp,      \* the method last applied
    symOut,     \* its result
    \* ---- the generated helpers (SpecPtr)
    perIter,    \* TRUE: the toolchain gives range loops a variable per iteration
    elemT,      \* the scalar type the helpers were generated for
    heap,       \* allocated cells: address -> value
    ptrOp,      \* the helper last called
    ptrIn,      \* its argument, in a record named after its Go type
    ptrOut      \* its result, in a record named after its Go type

genVars ==
    <<types, pc, pending, filename, tmplName, open, disk, err, status, logged, cause, hist>>
symVars == <<scalar, symOp, symOut>>
ptrVars == <<perIter, elemT, heap, ptrOp, ptrIn, ptrOut>>
vars == <<genVars, symVars, ptrVars>>

\* ------------------------------------------------------------------ bounds

\* The longest catalogue drawn as an input (besides main's own).
MaxTypes == 2

\* ----------------------------------------------------------------- strings

Range(s) == {s[i] : i \in 1..Len(s)}

RECURSIVE Strs(_, _)
\* All strings of at most n characters over the alphabet cs.
Strs(cs, n) ==
    IF n = 0 THEN {<<>>}
    ELSE LET shorter == Strs(cs, n - 1)
         IN  shorter \cup {Append(s, c) : s \in shorter, c \in cs}

\* unicode.ToUpper on the letters the catalogue uses.
ToUpper(c) ==
    CASE c = "a" -> "A" [] c = "b" -> "B" [] c = "d" -> "D" [] c = "e" -> "E"
      [] c = "f" -> "F" [] c = "g" -> "G" [] c = "i" -> "I" [] c = "l" -> "L"
      [] c = "m" -> "M" [] c = "n" -> "N" [] c = "o" -> "O" [] c = "r" -> "R"
      [] c = "s" -> "S" [] c = "t" -> "T" [] c = "u" -> "U" [] c = "x" -> "X"
      [] OTHER -> c

\* strings.Title's word boundary: a character that is no letter, digit or underscore.
IsSeparator(c) == c \in {"/", ".", " "}

\* strings.Title: the first letter of every word in upper case.
Title(s) ==
    [i \in 1..Len(s) |->
        IF i = 1 \/ IsSeparator(s[i - 1]) THEN ToUpper(s[i]) ELSE s[i]]

RECURSIVE SplitFrom(_, _, _)
\* strings.Split(s, sep) for a one-character sep, scanning from the left: cur is
\* the segment being read.
SplitFrom(s, sep, cur) ==
    IF s = <<>> THEN <<cur>>
    ELSE IF Head(s) = sep THEN <<cur>> \o SplitFrom(Tail(s), sep, <<>>)
    ELSE SplitFrom(Tail(s), sep, Append(cur, Head(s)))

Split(s, sep) == SplitFrom(s, sep, <<>>)

\* --------------------------------------------------- Import, Scalar, Scalars

\* A nil *Import.
NilImport == [nil |-> TRUE]

MkImport(path, alias) == [Path |-> path, Alias |-> alias]

PackageNoAlias(i) ==
    IF Len(i.Path) # 0
    THEN LET parts == Split(i.Path, "/") IN parts[Len(parts)]
    ELSE <<>>

\* Import.Package
Package(i) ==
    IF Len(i.Alias) # 0 THEN i.Alias
    ELSE IF Len(i.Path) # 0
         THEN LET parts == Split(i.Path, "/") IN parts[Len(parts)]
         ELSE <<>>

\* Scalar.Name
Name(t) == Title(t.Type)

\* Scalar.Symbol
Symbol(t) ==
    IF t.Import # NilImport
    THEN Package(t.Import) \o <<".">> \o t.Type
    ELSE t.Type

RECURSIVE Imports(_)
\* Scalars.Imports: every non-nil Import, in catalogue order.
Imports(ts) ==
    IF ts = <<>> THEN <<>>
    ELSE IF Head(ts).Import # NilImport
         THEN <<Head(ts).Import>> \o Imports(Tail(ts))
         ELSE Imports(Tail(ts))

Builtin(name) == [Type |-> name, Import |-> NilImport]

TimeImport == MkImport(<<"t", "i", "m", "e">>, <<>>)

\* The catalogue main builds.
MainTypes ==
    << Builtin(<<"s", "t", "r", "i", "n", "g">>),
       Builtin(<<"i", "n", "t">>),
       Builtin(<<"i", "n", "t", "8">>),
       Builtin(<<"i", "n", "t", "1", "6">>),
       Builtin(<<"i", "n", "t", "3", "2">>),
       Builtin(<<"i", "n", "t", "6", "4">>),
       Builtin(<<"u", "i", "n", "t">>),
       Builtin(<<"u", "i", "n", "t", "8">>),
       Builtin(<<"u", "i", "n", "t", "1", "6">>),
       Builtin(<<"u", "i", "n", "t", "3", "2">>),
       Builtin(<<"u", "i", "n", "t", "6", "4">>),
       Builtin(<<"f", "l", "o", "a", "t", "3", "2">>),
       Builtin(<<"f", "l", "o", "a", "t", "6", "4">>),
       [Type |-> <<"T", "i", "m", "e">>, Import |-> TimeImport] >>

\* Type names of the catalogues drawn as inputs of generateFile.
TypeNames == { <<>>, <<"i", "n", "t">>, <<"T", "i", "m", "e">>, <<"D", "u", "r">> }

\* Imports of the catalogues drawn as inputs of generateFile.
ImportPool == { NilImport, TimeImport, MkImport(<<"a", "/", "b">>, <<"x">>) }

ScalarPool == { [Type |-> n, Import |-> i] : n \in TypeNames, i \in ImportPool }

RECURSIVE SeqsUpTo(_, _)
\* All sequences of at most n elements of S.
SeqsUpTo(S, n) ==
    IF n = 0 THEN {<<>>}
    ELSE LET shorter == SeqsUpTo(S, n - 1)
         IN  shorter \cup {Append(s, x) : s \in shorter, x \in S}

\* The values of generateFile's types parameter: main's catalogue and every
\* catalogue of at most MaxTypes pool entries.
Catalogues == {MainTypes} \cup SeqsUpTo(ScalarPool, MaxTypes)

\* ---------------------------------------------------------------- templates

Str_To == <<"T", "o">>
Str_Slice == <<"S", "l", "i", "c", "e">>
Str_Map == <<"M", "a", "p">>

Func(name, t) == [name |-> name, symbol |-> Symbol(t)]

\* template "to pointer func"
ToPointerFunc(t) == << Func(Name(t), t) >>

\* template "to pointers func"
ToPointersFunc(t) == << Func(Name(t) \o Str_Slice, t), Func(Name(t) \o Str_Map, t) >>

\* template "from pointer func"
FromPointerFunc(t) == << Func(Str_To \o Name(t), t) >>

\* template "from pointers func"
FromPointersFunc(t) ==
    << Func(Str_To \o Name(t) \o Str_Slice, t), Func(Str_To \o Name(t) \o Str_Map, t) >>

\* template "header": the marker, the package clause and one import line per
\* element of $.Imports, rendered by its Path.
Header(ts) ==
    [ marker  |-> "// Code generated by smithy-go/ptr/generate.go DO NOT EDIT.",
      package |-> "ptr",
      imports |-> [k \in 1..Len(Imports(ts)) |-> Imports(ts)[k].Path] ]

RECURSIVE RangeTypes(_, _)
\* {{ range $_, $type := $ }} over the catalogue with the two templates of a kind.
RangeTypes(ts, kind) ==
    IF ts = <<>> THEN <<>>
    ELSE (IF kind = "scalar to pointer"
          THEN ToPointerFunc(Head(ts)) \o ToPointersFunc(Head(ts))
          ELSE FromPointerFunc(Head(ts)) \o FromPointersFunc(Head(ts)))
         \o RangeTypes(Tail(ts), kind)

\* templates "scalar to pointer" and "scalar from pointer"
Document(kind, ts) == [ header |-> Header(ts), funcs |-> RangeTypes(ts, kind) ]

\* The templates ptrTmpl defines, and those one document kind executes.
Templates ==
    { "header", "scalar from pointer", "scalar to pointer", "to pointer func",
      "to pointers func", "from pointer func", "from pointers func" }

Executes(kind) ==
    IF kind = "scalar to pointer"
    THEN {"scalar to pointer", "header", "to pointer func", "to pointers func"}
    ELSE {"scalar from pointer", "header", "from pointer func", "from pointers func"}

\* ------------------------------------------------------ main, generateFile

\* main's map of filename to template name.
FileTemplates ==
    [f \in {"to_ptr.go", "from_ptr.go"} |->
        IF f = "to_ptr.go" THEN "scalar to pointer" ELSE "scalar from pointer"]

Filenames == DOMAIN FileTemplates

\* What os.Create can fail with: an *os.PathError naming the operation and the path.
CreateErrors(f) ==
    { <<"open ", f, ": ", reason>> : reason \in {"permission denied", "is a directory"} }

\* What ExecuteTemplate can fail with: a write error of the file, passed on as it
\* is, or text/template's execution error naming the template that was executing.
RenderErrors(f, kind) ==
    { <<"write ", f, ": ", "no space left on device">> }
    \cup { <<"template: ptrTmpl: executing ", t, ": ", "error calling method">> :
            t \in Executes(kind) }

\* fmt.Errorf("failed to create %s file, %v", filename, err)
CreateFailed(f, e) == <<"failed to create ", f, " file, ">> \o e

GenerateFailedBare(f, e) == e

\* fmt.Errorf("failed to generate %s file, %v", filename, err)
GenerateFailed(f, e) == <<"failed to generate ", f, " file, ">> \o e

\* log.Fatalf("%s file generation failed, %v", filename, err): the message
FatalMessage(f, e) == <<f, " file generation failed, ">> \o e

\* log.Fatalf: os.Exit(1)
FatalStatus == 1

IsErrorNever(e) == FALSE

\* main's test of generateFile's result: err != nil
IsError(e) == e # <<>>

DeferredCloseLeak(handles, f) == handles

\* defer f.Close(), run as generateFile returns
DeferredClose(handles, f) == handles \ {f}

Absent == [state |-> "absent"]
Truncated == [state |-> "empty"]
Partial == [state |-> "partial"]
Complete(doc) == [state |-> "complete", doc |-> doc]

NoHist ==
    [calls |-> 0, created |-> 0, createFailed |-> 0, executed |-> 0,
     rendered |-> 0, renderFailed |-> 0, closed |-> 0]

Bump(h, f, field) == [h EXCEPT ![f] = [@ EXCEPT ![field] = @ + 1]]

\* Nothing of SpecSymbol or SpecPtr is in use.
SymIdle == scalar = Builtin(<<>>) /\ symOp = "none" /\ symOut = <<>>
NoValue == [none |-> TRUE]
PtrIdle ==
    /\ perIter = FALSE /\ elemT = "int" /\ heap = <<>>
    /\ ptrOp = "none" /\ ptrIn = NoValue /\ ptrOut = NoValue
GenIdle ==
    /\ types = <<>> /\ pc = "idle" /\ pending = {} /\ filename = "" /\ tmplName = ""
    /\ open = {} /\ disk = [f \in Filenames |-> Absent] /\ err = <<>> /\ status = -1
    /\ logged = <<>> /\ cause = <<>> /\ hist = [f \in Filenames |-> NoHist]

Init ==
    /\ types \in Catalogues
    /\ pc = "range"
    /\ pending = Filenames
    /\ filename = ""
    /\ tmplName = ""
    /\ open = {}
    /\ disk = [f \in Filenames |-> Absent]
    /\ err = <<>>
    /\ status = -1
    /\ logged = <<>>
    /\ cause = <<>>
    /\ hist = [f \in Filenames |-> NoHist]
    /\ SymIdle
    /\ PtrIdle

\* main: the next iteration of the range over the filename map (Go ranges over a
\* map in an unspecified order) calls generateFile.
MainRange ==
    /\ pc = "range"
    /\ \E f \in pending :
        /\ filename' = f
        /\ tmplName' = FileTemplates[f]
        /\ pending' = pending \ {f}
        /\ hist' = Bump(hist, f, "calls")
    /\ err' = <<>>
    /\ cause' = <<>>
    /\ pc' = "create"
    /\ UNCHANGED <<types, open, disk, status, logged, symVars, ptrVars>>

\* main: the range is exhausted and main returns.
MainReturn ==
    /\ pc = "range"
    /\ pending = {}
    /\ status' = 0
    /\ pc' = "exit"
    /\ UNCHANGED <<types, pending, filename, tmplName, open, disk, err, logged, cause,
                   hist, symVars, ptrVars>>

\* generateFile: os.Create succeeds; the file is created or truncated.
CreateOk ==
    /\ pc = "create"
    /\ open' = open \cup {filename}
    /\ disk' = [disk EXCEPT ![filename] = Truncated]
    /\ hist' = Bump(hist, filename, "created")
    /\ pc' = "execute"
    /\ UNCHANGED <<types, pending, filename, tmplName, err, status, logged, cause,
                   symVars, ptrVars>>

\* generateFile: os.Create fails and generateFile returns the wrapped error.
CreateFail ==
    /\ pc = "create"
    /\ \E e \in CreateErrors(filename) :
        /\ cause' = e
        /\ err' = CreateFailed(filename, e)
    /\ hist' = Bump(hist, filename, "createFailed")
    /\ pc' = "check"
    /\ UNCHANGED <<types, pending, filename, tmplName, open, disk, status, logged,
                   symVars, ptrVars>>

\* generateFile: ExecuteTemplate writes the whole document.
ExecuteOk ==
    /\ pc = "execute"
    /\ disk' = [disk EXCEPT ![filename] = Complete(Document(tmplName, types))]
    /\ hist' = Bump(Bump(hist, filename, "executed"), filename, "rendered")
    /\ pc' = "return"
    /\ UNCHANGED <<types, pending, filename, tmplName, open, err, status, logged, cause,
                   symVars, ptrVars>>

\* generateFile: ExecuteTemplate fails part way.
ExecuteFail ==
    /\ pc = "execute"
    /\ \E e \in RenderErrors(filename, tmplName) :
        /\ cause' = e
        /\ err' = GenerateFailed(filename, e)
    /\ disk' = [disk EXCEPT ![filename] = Partial]
    /\ hist' = Bump(Bump(hist, filename, "executed"), filename, "renderFailed")
    /\ pc' = "return"
    /\ UNCHANGED <<types, pending, filename, tmplName, open, status, logged,
                   symVars, ptrVars>>

\* generateFile returns after ExecuteTemplate: the deferred f.Close() runs.
Return ==
    /\ pc = "return"
    /\ open' = DeferredClose(open, filename)
    /\ hist' = Bump(hist, filename, "closed")
    /\ pc' = "check"
    /\ UNCHANGED <<types, pending, filename, tmplName, disk, err, status, logged, cause,
                   symVars, ptrVars>>

\* main: generateFile returned an error; log.Fatalf prints and exits.
MainFatal ==
    /\ pc = "check"
    /\ IsError(err)
    /\ logged' = FatalMessage(filename, err)
    /\ status' = FatalStatus
    /\ pc' = "exit"
    /\ UNCHANGED <<types, pending, filename, tmplName, open, disk, err, cause, hist,
                   symVars, ptrVars>>

\* main: generateFile returned nil; the range goes on.
MainContinue ==
    /\ pc = "check"
    /\ ~IsError(err)
    /\ pc' = "range"
    /\ UNCHANGED <<types, pending, filename, tmplName, open, disk, err, status, logged,
                   cause, hist, symVars, ptrVars>>

Next ==
    \/ MainRange
    \/ MainReturn
    \/ CreateOk
    \/ CreateFail
    \/ ExecuteOk
    \/ ExecuteFail
    \/ Return
    \/ MainFatal
    \/ MainContinue

Spec == Init /\ [][Next]_vars

\* ------------------------------------------------- claims about a run of main

Failed == {f \in Filenames : hist[f].createFailed + hist[f].renderFailed > 0}

\* C6: generation stops at the first error: once generating a file has failed,
\* main never goes on to another file and the process does not end with status
\* 0; files not yet ranged over are never attempted, and every other file was
\* generated completely before the failure.  The process ends with status 0 only
\* when both files were created and rendered without error, each exactly once.
C6_StopsAtFirstError ==
    /\ status = 0 =>
        \A f \in Filenames :
            /\ hist[f].calls = 1 /\ hist[f].created = 1 /\ hist[f].rendered = 1
            /\ hist[f].createFailed = 0 /\ hist[f].renderFailed = 0
            /\ disk[f].state = "complete"
    /\ Failed # {} =>
        /\ Failed = {filename}
        /\ hist[filename].createFailed + hist[filename].renderFailed = 1
        /\ status # 0
        /\ pc \in {"return", "check", "exit"}
        /\ \A g \in pending : hist[g].calls = 0 /\ disk[g].state = "absent"
        /\ \A g \in Filenames \ (pending \cup {filename}) :
            hist[g].calls = 1 /\ hist[g].rendered = 1
    /\ pc = "exit" => status \in {0, 1}
    /\ (pc = "exit" /\ Failed # {}) => status = 1

\* The first file failed and the process ended without attempting the second.
C6_Witness ==
    /\ pc = "exit" /\ status = 1 /\ pending # {}
    /\ hist[filename].renderFailed = 1
    /\ \A g \in pending : hist[g].calls = 0

\* C7: whenever generateFile is not between os.Create and its return (main is at
\* its range, is calling generateFile for the next file, is testing the result,
\* or the process has exited) no file handle is open, and every created file
\* was closed exactly once; ExecuteTemplate is invoked for a file
\* only after os.Create succeeded for it, never after it failed.
C7_HandleReleased ==
    /\ pc \in {"range", "create", "check", "exit"} =>
        /\ open = {}
        /\ \A f \in Filenames : hist[f].closed = hist[f].created
    /\ \A f \in Filenames :
        /\ hist[f].executed <= hist[f].created
        /\ hist[f].createFailed > 0 => hist[f].executed = 0 /\ hist[f].created = 0

\* Rendering failed after the file was created, and the process has exited.
C7_Witness ==
    /\ pc = "exit" /\ hist[filename].created = 1 /\ hist[filename].renderFailed = 1
    /\ hist[filename].closed = 1 /\ open = {}
    /\ \E f \in Filenames : hist[f].createFailed = 0

\* C8 (as stated): when rendering fails after the file was created, the message
\* the process reports names both the filename and the template kind, and the
\* process ends with a non-zero status.
C8_NamesFileAndTemplate ==
    (pc = "exit" /\ hist[filename].renderFailed > 0) =>
        /\ filename \in Range(logged)
        /\ tmplName \in Range(logged)
        /\ status # 0

\* C8 (amended): when rendering fails after the file was created, the message the
\* process reports names the filename and carries the text of the error
\* ExecuteTemplate returned, and nothing else; the process ends with status 1.
C8_NamesFileAndCause ==
    (pc = "exit" /\ hist[filename].renderFailed > 0) =>
        /\ cause \in RenderErrors(filename, tmplName)
        /\ logged = << filename, " file generation failed, ",
                       "failed to generate ", filename, " file, " >> \o cause
        /\ filename \in Range(logged)
        /\ status = 1

\* A failed render was reported without the template kind in the message.
C8_Witness ==
    /\ pc = "exit" /\ hist[filename].renderFailed > 0
    /\ filename \in Range(logged)
    /\ tmplName \notin Range(logged)

\* A catalogue entry is invalid when its type name is empty or occurs twice.
ValidCatalogue(ts) ==
    /\ \A i \in 1..Len(ts) : ts[i].Type # <<>>
    /\ \A i, j \in 1..Len(ts) : ts[i].Type = ts[j].Type => i = j

\* C9 (as stated): from a catalogue with an invalid entry no output file is
\* created, no template is rendered, and the process does not end with status 0.
C9_InvalidRejected ==
    ~ValidCatalogue(types) =>
        /\ \A f \in Filenames :
            hist[f].created = 0 /\ hist[f].executed = 0 /\ disk[f].state = "absent"
        /\ status # 0

RECURSIVE FirstAppearances(_, _)
\* The elements of s not in seen, each once, in order of first appearance.
FirstAppearances(s, seen) ==
    IF s = <<>> THEN <<>>
    ELSE IF Head(s) \in seen THEN FirstAppearances(Tail(s), seen)
    ELSE <<Head(s)>> \o FirstAppearances(Tail(s), seen \cup {Head(s)})

RECURSIVE DeclaredPaths(_)
\* The Path of every catalogue entry that declares an Import, in catalogue order.
DeclaredPaths(ts) ==
    IF ts = <<>> THEN <<>>
    ELSE (IF "Path" \in DOMAIN Head(ts).Import THEN <<Head(ts).Import.Path>> ELSE <<>>)
         \o DeclaredPaths(Tail(ts))

\* C5 (as stated): the import block of every rendered document lists each
\* distinct external reference of the catalogue exactly once, in order of first
\* appearance.  Stated here for the catalogues whose type names are valid, so
\* that a violation owes nothing to an invalid entry.
C5_ImportsDeduplicated ==
    \A f \in Filenames :
        (ValidCatalogue(types) /\ disk[f].state = "complete") =>
            disk[f].doc.header.imports = FirstAppearances(DeclaredPaths(types), {})

\* ------------------------------------------------ Package and Symbol (SpecSymbol)

\* The longest Path and Alias drawn as inputs.
MaxPathLen == 3
MaxAliasLen == 1

PathChars == {"a", "b", "/"}
AliasChars == {"x"}

\* The Scalars Package and Symbol are applied to.
SymbolInputs ==
    { [Type |-> n, Import |-> i] :
        n \in TypeNames,
        i \in {NilImport} \cup
              { MkImport(p, a) : p \in Strs(PathChars, MaxPathLen),
                                 a \in Strs(AliasChars, MaxAliasLen) } }

InitSymbol ==
    /\ scalar \in SymbolInputs
    /\ symOp = "none"
    /\ symOut = <<>>
    /\ GenIdle
    /\ PtrIdle

\* t.Import.Package() for a Scalar that declares an Import.
CallPackage ==
    /\ symOp = "none"
    /\ scalar.Import # NilImport
    /\ symOp' = "Package"
    /\ symOut' = Package(scalar.Import)
    /\ UNCHANGED <<scalar, genVars, ptrVars>>

\* t.Symbol()
CallSymbol ==
    /\ symOp = "none"
    /\ symOp' = "Symbol"
    /\ symOut' = Symbol(scalar)
    /\ UNCHANGED <<scalar, genVars, ptrVars>>

NextSymbol ==
    \/ CallPackage
    \/ CallSymbol

SpecSymbol == InitSymbol /\ [][NextSymbol]_vars

\* s is the last "/"-separated segment of p: a suffix of p without "/" that is
\* all of p or follows a "/".
IsLastSegment(p, s) ==
    /\ "/" \notin Range(s)
    /\ \E k \in 0..Len(p) :
        /\ s = SubSeq(p, k + 1, Len(p))
        /\ k = 0 \/ p[k] = "/"

\* r is the package name the claim gives an Import: the alias if there is one,
\* otherwise the last segment of the path.
IsPackageOf(i, r) ==
    IF i.Alias # <<>> THEN r = i.Alias ELSE IsLastSegment(i.Path, r)

\* What Package and Symbol return, apart from whether the package name is empty.
C10_Shape ==
    /\ symOp = "Package" => IsPackageOf(scalar.Import, symOut)
    /\ (symOp = "Symbol" /\ "Path" \in DOMAIN scalar.Import) =>
        \E r \in Strs(PathChars \cup AliasChars, MaxPathLen + MaxAliasLen) :
            /\ IsPackageOf(scalar.Import, r)
            /\ symOut = r \o <<".">> \o scalar.Type
    /\ (symOp = "Symbol" /\ "Path" \notin DOMAIN scalar.Import) => symOut = scalar.Type

MaxLen == 2
MaxHeap == 3

\* The scalar types the helpers are exercised for, their values and zero values.
ElemTypes == {"int", "string"}
Values(T) == IF T = "int" THEN {0, 1, 5} ELSE {"", "a", "b"}
Zero(T) == IF T = "int" THEN 0 ELSE ""

\* Keys of the maps drawn as inputs.
Keys == {"a", "b"}

\* A nil pointer; the other pointers are the addresses 1..Len(heap).
NilPtr == 0

Pointers(h) == 0..Len(h)

\* The orders in which a range statement can visit the keys ks.
Orders(ks) == {o \in [1..Cardinality(ks) -> ks] : Range(o) = ks}

PtrOffByOne(h, v) == [heap |-> Append(h, v), out |-> Len(h)]

\* <Name>(v): return &v, the address of the parameter's own cell
Ptr(h, v) == [heap |-> Append(h, v), out |-> Len(h) + 1]

RECURSIVE SliceShared(_, _, _, _, _)
\* The loop of <Name>Slice with one variable v for the whole loop, at address a:
\* each iteration assigns vs[i] to v and stores &v in ps[i].
SliceShared(h, ps, vs, i, a) ==
    IF i > Len(vs) THEN [heap |-> h, out |-> ps]
    ELSE SliceShared([h EXCEPT ![a] = vs[i]], [ps EXCEPT ![i] = a], vs, i + 1, a)

RECURSIVE SliceFresh(_, _, _, _)
\* The loop of <Name>Slice with a new variable v in every iteration.
SliceFresh(h, ps, vs, i) ==
    IF i > Len(vs) THEN [heap |-> h, out |-> ps]
    ELSE SliceFresh(Append(h, vs[i]), [ps EXCEPT ![i] = Len(h) + 1], vs, i + 1)

\* <Name>Slice(vs): ps := make([]*T, len(vs)); for i, v := range vs { ps[i] = &v }
Slice(h, vs, T, fresh) ==
    LET ps == [i \in 1..Len(vs) |-> NilPtr]
    IN  IF fresh THEN SliceFresh(h, ps, vs, 1)
        ELSE SliceShared(Append(h, Zero(T)), ps, vs, 1, Len(h) + 1)

RECURSIVE MapShared(_, _, _, _, _, _)
\* The loop of <Name>Map with one variable v for the whole loop, at address a;
\* order is the order in which the range visits the keys.
MapShared(h, ps, vs, order, i, a) ==
    IF i > Len(order) THEN [heap |-> h, out |-> ps]
    ELSE MapShared([h EXCEPT ![a] = vs[order[i]]], (order[i] :> a) @@ ps,
                   vs, order, i + 1, a)

RECURSIVE MapFresh(_, _, _, _, _)
\* The loop of <Name>Map with a new variable v in every iteration.
MapFresh(h, ps, vs, order, i) ==
    IF i > Len(order) THEN [heap |-> h, out |-> ps]
    ELSE MapFresh(Append(h, vs[order[i]]), (order[i] :> Len(h) + 1) @@ ps,
                  vs, order, i + 1)

\* <Name>Map(vs): ps := make(map[string]*T, len(vs)); for k, v := range vs { ps[k] = &v }
\* ps[k] = x is (k :> x) @@ ps: the map has a key once the loop has reached it.
MapOf(h, vs, order, T, fresh) ==
    LET ps == [k \in {} |-> NilPtr]
    IN  IF fresh THEN MapFresh(h, ps, vs, order, 1)
        ELSE MapShared(Append(h, Zero(T)), ps, vs, order, 1, Len(h) + 1)

ToValueZero(h, p, T) == Zero(T)

\* To<Name>(p): the zero value of the named result if p == nil, else *p
ToValue(h, p, T) == IF p = NilPtr THEN Zero(T) ELSE h[p]

RECURSIVE ToSliceLoop(_, _, _, _, _)
ToSliceLoop(h, ps, vs, i, T) ==
    IF i > Len(vs) THEN ps
    ELSE ToSliceLoop(h, [ps EXCEPT ![i] = ToValue(h, vs[i], T)], vs, i + 1, T)

\* To<Name>Slice(vs): ps := make([]T, len(vs)); for i, v := range vs { ps[i] = To<Name>(v) }
ToSlice(h, vs, T) == ToSliceLoop(h, [i \in 1..Len(vs) |-> Zero(T)], vs, 1, T)

RECURSIVE ToMapLoop(_, _, _, _, _, _)
ToMapLoop(h, ps, vs, order, i, T) ==
    IF i > Len(order) THEN ps
    ELSE ToMapLoop(h, (order[i] :> ToValue(h, vs[order[i]], T)) @@ ps,
                   vs, order, i + 1, T)

\* To<Name>Map(vs): ps := make(map[string]T, len(vs)); for k, v := range vs { ps[k] = To<Name>(v) }
ToMap(h, vs, order, T) == ToMapLoop(h, [k \in {} |-> Zero(T)], vs, order, 1, T)

\* The language version the emitted file is compiled under decides whether a
\* range loop has one variable or one per iteration; both are drawn.
InitPtr ==
    /\ perIter \in BOOLEAN
    /\ elemT \in ElemTypes
    /\ heap = <<>>
    /\ ptrOp = "none"
    /\ ptrIn = NoValue
    /\ ptrOut = NoValue
    /\ GenIdle
    /\ SymIdle

\* An argument or result of Go type T, *T, []T, []*T, map[string]T or map[string]*T.
OfT(v) == [t |-> v]
OfPtr(p) == [p |-> p]
OfSliceT(vs) == [ts |-> vs]
OfSlicePtr(ps) == [ps |-> ps]
OfMapT(vs) == [tm |-> vs]
OfMapPtr(ps) == [pm |-> ps]

\* One call of a helper by a caller that holds no earlier result: h is the heap
\* the helper leaves, out its return value.
Called(op, in, h, out) ==
    /\ ptrOp = "none"
    /\ Len(h) <= MaxHeap
    /\ ptrOp' = op
    /\ ptrIn' = in
    /\ heap' = h
    /\ ptrOut' = out
    /\ UNCHANGED <<perIter, elemT, genVars, symVars>>

CallPtr ==
    \E v \in Values(elemT) :
        LET r == Ptr(heap, v)
        IN  Called("Ptr", OfT(v), r.heap, OfPtr(r.out))

CallSlice ==
    \E vs \in SeqsUpTo(Values(elemT), MaxLen) :
        LET r == Slice(heap, vs, elemT, perIter)
        IN  Called("Slice", OfSliceT(vs), r.heap, OfSlicePtr(r.out))

CallMap ==
    \E ks \in SUBSET Keys :
        \E vs \in [ks -> Values(elemT)], order \in Orders(ks) :
            LET r == MapOf(heap, vs, order, elemT, perIter)
            IN  Called("Map", OfMapT(vs), r.heap, OfMapPtr(r.out))

CallToValue ==
    \E p \in Pointers(heap) :
        Called("ToValue", OfPtr(p), heap, OfT(ToValue(heap, p, elemT)))

CallToSlice ==
    \E ps \in SeqsUpTo(Pointers(heap), MaxLen) :
        Called("ToSlice", OfSlicePtr(ps), heap, OfSliceT(ToSlice(heap, ps, elemT)))

CallToMap ==
    \E ks \in SUBSET Keys :
        \E ps \in [ks -> Pointers(heap)], order \in Orders(ks) :
            Called("ToMap", OfMapPtr(ps), heap, OfMapT(ToMap(heap, ps, order, elemT)))

\* The caller drops the result; the cells stay allocated.
Drop ==
    /\ ptrOp # "none"
    /\ ptrOp' = "none"
    /\ ptrIn' = NoValue
    /\ ptrOut' = NoValue
    /\ UNCHANGED <<heap, perIter, elemT, genVars, symVars>>

NextPtr ==
    \/ Drop
    \/ CallPtr
    \/ CallSlice
    \/ CallMap
    \/ CallToValue
    \/ CallToSlice
    \/ CallToMap

SpecPtr == InitPtr /\ [][NextPtr]_vars

\* C1 (as stated): <Name>Slice returns as many entries as it was given, and entry
\* i is a reference to a value equal to vs[i].  (The claim adds that entries at
\* different indices are different references; what is stated here already
\* fails, and it fails on values, not only on the identity of references.)
C1_SliceEntriesOwnTheirValues ==
    ptrOp = "Slice" =>
        LET vs == ptrIn.ts
            ps == ptrOut.ps
        IN  /\ Len(ps) = Len(vs)
            /\ \A i \in 1..Len(vs) : ps[i] # NilPtr /\ heap[ps[i]] = vs[i]

\* C2 (as stated): <Name>Map returns a map with the key set it was given, and
\* the entry of every key k is a reference to a value equal to vs[k], whatever
\* the order the keys were visited in.
C2_MapEntriesOwnTheirValues ==
    ptrOp = "Map" =>
        LET vs == ptrIn.tm
            ps == ptrOut.pm
        IN  /\ DOMAIN ps = DOMAIN vs
            /\ \A k \in DOMAIN vs : ps[k] # NilPtr /\ heap[ps[k]] = vs[k]

\* What To<Name> is to return for the pointer p.
Deref(p) == IF p = NilPtr THEN Zero(elemT) ELSE heap[p]

\* C3: To<Name>Slice and To<Name>Map return a result of the length, or with the
\* key set, of their argument; at every index or key a nil pointer gives the
\* zero value of the type and any other pointer the value it refers to.
C3_FromPointersElementwise ==
    /\ ptrOp = "ToSlice" =>
        /\ Len(ptrOut.ts) = Len(ptrIn.ps)
        /\ \A i \in 1..Len(ptrIn.ps) : ptrOut.ts[i] = Deref(ptrIn.ps[i])
    /\ ptrOp = "ToMap" =>
        /\ DOMAIN ptrOut.tm = DOMAIN ptrIn.pm
        /\ \A k \in DOMAIN ptrIn.pm : ptrOut.tm[k] = Deref(ptrIn.pm[k])
    /\ ptrOp = "ToValue" => ptrOut.t = Deref(ptrIn.p)

\* {"a": nil, "b": a reference to 5} gave {"a": 0, "b": 5}.
C3_Witness ==
    /\ ptrOp = "ToMap" /\ elemT = "int" /\ DOMAIN ptrIn.pm = {"a", "b"}
    /\ ptrIn.pm["a"] = NilPtr /\ ptrIn.pm["b"] # NilPtr /\ heap[ptrIn.pm["b"]] = 5
    /\ ptrOut.tm["a"] = 0 /\ ptrOut.tm["b"] = 5

\* C4: the pointer <Name>(v) returns is not nil, and To<Name> applied to it
\* gives v back.
C4_RoundTrip ==
    ptrOp = "Ptr" =>
        /\ ptrOut.p # NilPtr
        /\ ToValue(heap, ptrOut.p, elemT) = ptrIn.t

\* <Name> was called on a value that is not the zero value, with other cells
\* already allocated.
C4_Witness ==
    /\ ptrOp = "Ptr" /\ elemT = "int" /\ ptrIn.t = 5 /\ Len(heap) > 1
    /\ ptrOut.p # NilPtr /\ heap[ptrOut.p] = 5 /\ heap[1] # 5

====
